---- MODULE Spec2Model ----
(***************************************************************************)
(* A model of psi_ip_ortools_train_test_histogram_data.ipynb: the integer  *)
(* program that selects bin edges (solve), the extraction of the edges,    *)
(* the threshold sweep on the training set, the evaluation of a test set   *)
(* and the batch driver (main).                                            *)
(*                                                                         *)
(* Numbers.  Histogram rows are kept as raw integer counts; the code       *)
(* divides every row by s = sum of the first row, so a normalised density  *)
(* is a/s.  Logarithms are kept in thousandths (LnMilli), and a PSI value  *)
(* is kept as the integer  psi * 1000 * s.  A float that the code obtains  *)
(* by a division is kept as a record [nan, num, den]; nan is TRUE exactly  *)
(* when the code divides 0 by 0, where numpy yields NaN and goes on.       *)
(*                                                                         *)
(* x[i, j] = 1 is modelled as <<i, j>> \in x, a set of pairs i < j.        *)
(***************************************************************************)
EXTENDS Integers, Sequences, FiniteSets, TLC

\* ---------------------------------------------------------------- sizes
\* min_edge, max_edge = 300, 850 in the source.  max_edge is scaled down
\* (551 positions give 2^151525 assignments); train_size follows from it as
\* in the source.  The cardinality limits 5 and 25 are scaled with it so
\* that both limits bind on the scaled support.
min_edge == 300

max_edge == 304

min_num_bins == 2

max_num_bins == 3

\* The most days a data set of the model holds (at least 2: one transition).
MaxDays == 3

\* The most training files main is given.
MaxTasks == 3

train_size == max_edge - min_edge + 1

Pos(n) == 0 .. (n - 1)

Pairs(n) == {e \in Pos(n) \X Pos(n) : e[1] < e[2]}

\* ------------------------------------------------------- the constraints
\* solver.Sum(x[:p, p])
Inbound(xs, p) == Cardinality({e \in xs : e[2] = p})

\* solver.Sum(x[p, p + 1:])
Outbound(xs, p) == Cardinality({e \in xs : e[1] = p})

\* A slip that forgets the conservation equality of line 160.
FlowConstraintsNoConservation(xs, n) ==
    /\ \A p \in 1 .. (n - 2) : Inbound(xs, p) <= 1 /\ Outbound(xs, p) <= 1
    /\ Outbound(xs, 0) = 1
    /\ Inbound(xs, n - 1) = 1

\* The flow constraints and the in-and-out constraints.
FlowConstraints(xs, n) ==
    /\ \A p \in 1 .. (n - 2) :
          /\ Inbound(xs, p) <= 1
          /\ Outbound(xs, p) <= 1
          /\ Inbound(xs, p) = Outbound(xs, p)
    /\ Outbound(xs, 0) = 1
    /\ Inbound(xs, n - 1) = 1

\* A slip that forgets the lower limit of line 170.
CardinalityConstraintsNoMin(xs) == Cardinality(xs) <= max_num_bins

\* solver.Sum(x.flatten()) <= max_num_bins and >= min_num_bins
CardinalityConstraints(xs) ==
    /\ Cardinality(xs) <= max_num_bins
    /\ Cardinality(xs) >= min_num_bins

\* ------------------------------------------------------------ the data
\* The histogram columns: one per position of [min_edge, max_edge).
Cells == 0 .. (train_size - 2)

\* np.sum(hist[j: k])
RECURSIVE SumRange(_, _, _)
SumRange(hist, j, k) ==
    IF j >= k THEN 0 ELSE hist[j] + SumRange(hist, j + 1, k)

\* sum(X_train[0]): what preprocess_data divides every row by.
Norm(X) == SumRange(X[1], 0, train_size - 1)

\* A day whose samples all fall on one position.
Hists == {[c \in Cells |-> IF c = p THEN 1 ELSE 0] : p \in Cells}

\* The data sets of the model: 2 .. MaxDays days, one 0/1 label per
\* transition.  X[d] is the code's X[d - 1], y[t] the code's y[t - 1].
DataSets ==
    UNION {{[X |-> X, y |-> y] : X \in [1 .. d -> Hists],
                                 y \in [1 .. (d - 1) -> {0, 1}]} :
           d \in 2 .. MaxDays}

\* 1000 * ln(epsilon), epsilon = 1e-8.
LnEpsilonMilli == -18421

\* 1000 * ln(n), rounded.
LnMilli(n) ==
    CASE n = 1 -> 0
      [] n = 2 -> 693
      [] n = 3 -> 1099
      [] n = 4 -> 1386
      [] n = 5 -> 1609
      [] n = 6 -> 1792

\* 1000 * ln(a / s + epsilon) for a count a.
LogDensity(a, s) ==
    IF a = 0 THEN LnEpsilonMilli ELSE LnMilli(a) - LnMilli(s)

\* (p - q) * ln((p + epsilon) / (q + epsilon)) for p = a / s and q = b / s,
\* times 1000 * s.
PsiTerm(a, b, s) == (a - b) * (LogDensity(a, s) - LogDensity(b, s))

\* percent_days_train[i, j, k], times s.
Percent(X, day, e) == SumRange(X[day], e[1], e[2])

\* psi_train[t - 1][i, j]: the PSI of the transition into day t + 1.
PsiTrain(X, t, e) ==
    PsiTerm(Percent(X, t + 1, e), Percent(X, t, e), Norm(X))

\* np.sum(y) for c = 1 and np.sum(1 - y) for c = 0.
ClassCount(y, c) == Cardinality({t \in DOMAIN y : y[t] = c})

RECURSIVE SumPsiOfClass(_, _, _, _, _)
SumPsiOfClass(X, y, c, e, t) ==
    IF t = 0 THEN 0
    ELSE (IF y[t] = c THEN PsiTrain(X, t, e) ELSE 0)
         + SumPsiOfClass(X, y, c, e, t - 1)

\* A float the code gets by dividing num by den: NaN when it is 0 / 0.
Quot(num, den) == [nan |-> (den = 0), num |-> num, den |-> den]

\* psi_0_train (c = 0) and psi_1_train (c = 1): the class's PSI matrices
\* summed and divided by the class's number of transitions.  With no
\* transition of the class the division is 0 / 0 in every entry: the code
\* raises nothing and the matrix is NaN.
PsiClassTrain(X, y, c) ==
    [nan |-> (ClassCount(y, c) = 0),
     den |-> ClassCount(y, c),
     num |-> [e \in Pairs(train_size) |-> SumPsiOfClass(X, y, c, e, Len(y))]]

\* ----------------------------------------------------------- the solver
\* alpha = 0.5
AlphaNum == 1

AlphaDen == 2

RECURSIVE SumOver(_, _)
SumOver(m, xs) ==
    IF xs = {} THEN 0
    ELSE LET e == CHOOSE f \in xs : TRUE IN m[e] + SumOver(m, xs \ {e})

\* np.sum(psi_c_train * x_solution_value)
ObjectiveOfClass(pc_train, xs) ==
    [nan |-> pc_train.nan, num |-> SumOver(pc_train.num, xs), den |-> pc_train.den]

\* alpha * o1 - (1 - alpha) * o0, NaN when either is.
Combine(o0, o1) ==
    IF o0.nan \/ o1.nan THEN [nan |-> TRUE, num |-> 0, den |-> 0]
    ELSE [nan |-> FALSE,
          num |-> AlphaNum * o1.num * o0.den
                  - (AlphaDen - AlphaNum) * o0.num * o1.den,
          den |-> AlphaDen * o0.den * o1.den]

\* The objective of line 196 at the assignment xs.
Objective(p0, p1, xs) ==
    Combine(ObjectiveOfClass(p0, xs), ObjectiveOfClass(p1, xs))

\* The assignments that meet every constraint of the model (written as an
\* image so that the set is enumerated once and kept).
FeasibleSet ==
    {zs : zs \in {xs \in SUBSET Pairs(train_size) :
                     FlowConstraints(xs, train_size)
                     /\ CardinalityConstraints(xs)}}

Success == {"OPTIMAL", "FEASIBLE"}

\* What solver.Solve() may leave behind.  The backend is opaque: it may
\* stop at any feasible assignment (FEASIBLE), at a best one (OPTIMAL), find
\* none (INFEASIBLE) or fail (ABNORMAL); after a failure every
\* solution_value() is 0.  With a NaN coefficient in the objective the
\* outcome is not defined by the code: any status, and a NaN objective
\* value.
SolverOutcomes(p0, p1) ==
    LET value == [xs \in FeasibleSet |-> Objective(p0, p1, xs)]
        failed(st) == [status |-> st, x |-> {}, value |-> Quot(0, 1)]
        at(st, xs) == [status |-> st, x |-> xs, value |-> value[xs]]
        best == {xs \in FeasibleSet :
                    \A zs \in FeasibleSet : value[zs].num <= value[xs].num}
    IN  IF p0.nan \/ p1.nan
        THEN {at(st, xs) : st \in Success, xs \in FeasibleSet}
             \cup {failed("ABNORMAL")}
        ELSE {at("OPTIMAL", xs) : xs \in best}
             \cup {at("FEASIBLE", xs) : xs \in FeasibleSet}
             \cup (IF FeasibleSet = {} THEN {failed("INFEASIBLE")} ELSE {})
             \cup {failed("ABNORMAL")}

\* -------------------------------------------------------- the extractor
\* Whether the scan of lines 237-240 (i outer, j inner) meets e before f.
ScannedBefore(e, f) == e[1] < f[1] \/ (e[1] = f[1] /\ e[2] <= f[2])

\* A slip that takes the end index j of a selected pair for its start i.
RECURSIVE ScanEdgesEnds(_)
ScanEdgesEnds(xs) ==
    IF xs = {} THEN <<>>
    ELSE LET e == CHOOSE f \in xs : \A g \in xs : ScannedBefore(f, g)
         IN  <<e[2] + min_edge>> \o ScanEdgesEnds(xs \ {e})

\* The start edge i + 300 of every selected pair, in the order of the scan.
RECURSIVE ScanEdges(_)
ScanEdges(xs) ==
    IF xs = {} THEN <<>>
    ELSE LET e == CHOOSE f \in xs : \A g \in xs : ScannedBefore(f, g)
         IN  <<e[1] + min_edge>> \o ScanEdges(xs \ {e})

\* final_bin_edges
ExtractEdges(st, xs) ==
    IF st \in Success THEN ScanEdges(xs) \o <<max_edge>> ELSE <<>>

\* ---------------------------------------------------------- the metrics
\* beta = 2.0
Beta == 2

Range(f) == {f[t] : t \in DOMAIN f}

\* The transitions with true label a and predicted label b.
Confusion(y_true, y_pred, a, b) ==
    Cardinality({t \in DOMAIN y_true : y_true[t] = a /\ y_pred[t] = b})

TrueSum(y_true, c) == Cardinality({t \in DOMAIN y_true : y_true[t] = c})

PredSum(y_pred, c) == Cardinality({t \in DOMAIN y_pred : y_pred[t] = c})

\* round(num / den, 4), times 10000; sklearn reports an undefined ratio
\* (den = 0) as 0.0 with a warning.
Round4(num, den) ==
    IF den = 0 THEN 0 ELSE (2 * 10000 * num + den) \div (2 * den)

\* The F-beta score of class c as a fraction <<num, den>>.
FBeta(y_true, y_pred, c) ==
    LET tp == Confusion(y_true, y_pred, c, c)
        d  == Beta * Beta * TrueSum(y_true, c) + PredSum(y_pred, c)
    IN  IF d = 0 THEN <<0, 1>> ELSE <<(1 + Beta * Beta) * tp, d>>

\* precision_0_recall_1_inverse_weighted_fbeta.  With average=None sklearn
\* returns one entry per label present in y_true or y_pred, so with a single
\* label present recalls[1] raises IndexError.
Metrics(y_true, y_pred) ==
    LET n  == Len(y_true)
        f0 == FBeta(y_true, y_pred, 0)
        f1 == FBeta(y_true, y_pred, 1)
    IN  IF Cardinality(Range(y_true) \cup Range(y_pred)) < 2
        THEN [raised |-> TRUE, precision_0 |-> 0, recall_1 |-> 0,
              inverse_weighted_fbeta_score |-> 0]
        ELSE [raised |-> FALSE,
              precision_0 |-> Round4(Confusion(y_true, y_pred, 0, 0),
                                     PredSum(y_pred, 0)),
              recall_1 |-> Round4(Confusion(y_true, y_pred, 1, 1),
                                  TrueSum(y_true, 1)),
              inverse_weighted_fbeta_score |->
                  Round4(f0[1] * TrueSum(y_true, 1) * f1[2]
                         + f1[1] * TrueSum(y_true, 0) * f0[2],
                         f0[2] * f1[2] * n)]

\* accuracy_score
Accuracy(y_true, y_pred) ==
    Quot(Cardinality({t \in DOMAIN y_true : y_true[t] = y_pred[t]}),
         Len(y_true))

\* ------------------------------------------------------- the classifier
\* thresholds = [0.1], in thousandths.
thresholds == <<100>>

\* A slip that starts every bin one position late.
BinSumSkipFirst(hist, edges, j) ==
    SumRange(hist, edges[j] - min_edge + 1, edges[j + 1] - min_edge)

\* np.sum(X[i, final_bin_edges[j] - 300: final_bin_edges[j + 1] - 300])
BinSum(hist, edges, j) ==
    SumRange(hist, edges[j] - min_edge, edges[j + 1] - min_edge)

RECURSIVE BinPsiFrom(_, _, _, _, _)
BinPsiFrom(hist_1, hist_2, edges, j, s) ==
    IF j >= Len(edges) THEN 0
    ELSE PsiTerm(BinSum(hist_1, edges, j), BinSum(hist_2, edges, j), s)
         + BinPsiFrom(hist_1, hist_2, edges, j + 1, s)

\* psi of the transition from day i to day i + 1 over the bins of edges,
\* times 1000 * s; 0 over an empty edge list.
BinPsi(X, i, edges) == BinPsiFrom(X[i], X[i + 1], edges, 1, Norm(X))

\* psi >= threshold and psi < threshold, both sides times 1000 * s.
AtLeast(psi, threshold, s) == psi >= threshold * s

Below(psi, threshold, s) == psi < threshold * s

\* A slip that flips the label only for class 1.
PredictedLabelLeaky(label, psi, threshold, s) ==
    IF label = 0 \/ AtLeast(psi, threshold, s) THEN label ELSE 1 - label

\* Lines 280-283 and 337-340.
PredictedLabel(label, psi, threshold, s) ==
    IF (label = 0 /\ Below(psi, threshold, s))
       \/ (label = 1 /\ AtLeast(psi, threshold, s))
    THEN label
    ELSE 1 - label

\* The predictions of one data set at one threshold.
Predictions(X, y, edges, threshold) ==
    [t \in DOMAIN y |->
        PredictedLabel(y[t], BinPsi(X, t, edges), threshold, Norm(X))]

\* -------------------------------------------------------- the evaluator
RECURSIVE SumPsiOfLabel(_, _, _, _)
SumPsiOfLabel(psis, y, c, t) ==
    IF t = 0 THEN 0
    ELSE (IF y[t] = c THEN psis[t] ELSE 0) + SumPsiOfLabel(psis, y, c, t - 1)

\* Lines 313-369 for one test set: the record appended to result, or the
\* IndexError of the metrics (the objectives and the accuracy are computed
\* before it).
EvaluateTestSet(X, y, edges, threshold) ==
    LET psis == [t \in DOMAIN y |-> BinPsi(X, t, edges)]
        pred == [t \in DOMAIN y |->
                    PredictedLabel(y[t], psis[t], threshold, Norm(X))]
        o0   == Quot(SumPsiOfLabel(psis, y, 0, Len(y)), ClassCount(y, 0))
        o1   == Quot(SumPsiOfLabel(psis, y, 1, Len(y)), ClassCount(y, 1))
        m    == Metrics(y, pred)
    IN  [raised |-> m.raised,
         psis |-> psis,
         y_test_pred |-> pred,
         psi_0_test |-> o0,
         psi_1_test |-> o1,
         total_objective_test |-> Combine(o0, o1),
         test_acc |-> Accuracy(y, pred),
         test_precision_0 |-> m.precision_0,
         test_recall_1 |-> m.recall_1,
         test_inverse_weighted_f2 |-> m.inverse_weighted_fbeta_score]

\* What one pass of the loop body leaves in sweep: the predictions pred and
\* their metrics m at thresholds[k], kept as the best when the score beats
\* the best so far.
SweepStep(sw, threshold, y_true, pred, m) ==
    IF m.inverse_weighted_fbeta_score > sw.best_train_inverse_weighted_f2
    THEN [k |-> sw.k + 1,
          threshold |-> threshold,
          y_train_pred |-> pred,
          best_train_threshold |-> threshold,
          best_train_precision_0 |-> m.precision_0,
          best_train_recall_1 |-> m.recall_1,
          best_train_inverse_weighted_f2 |-> m.inverse_weighted_fbeta_score,
          best_y_train_pred |-> pred,
          train_acc |-> Accuracy(y_true, pred),
          scores |-> Append(sw.scores, m.inverse_weighted_fbeta_score)]
    ELSE [sw EXCEPT !.k = sw.k + 1,
                    !.threshold = threshold,
                    !.y_train_pred = pred,
                    !.scores = Append(sw.scores, m.inverse_weighted_fbeta_score)]

\* ------------------------------------------------- solve as one step
\* sweep before the first candidate (lines 258-261).
SweepStart(y) ==
    [k |-> 1, threshold |-> 0, y_train_pred |-> <<>>,
     best_train_threshold |-> 0, best_train_precision_0 |-> 0,
     best_train_recall_1 |-> 0, best_train_inverse_weighted_f2 |-> 0,
     best_y_train_pred |-> [t \in DOMAIN y |-> 0],
     train_acc |-> Quot(0, 1), scores |-> <<>>]

\* The whole loop of lines 263-292 from candidate sw.k on.
RECURSIVE SweepAll(_, _, _)
SweepAll(d, edges, sw) ==
    IF sw.k > Len(thresholds) THEN [raised |-> FALSE, sweep |-> sw]
    ELSE LET pred == Predictions(d.X, d.y, edges, thresholds[sw.k])
             m    == Metrics(d.y, pred)
         IN  IF m.raised THEN [raised |-> TRUE, sweep |-> sw]
             ELSE SweepAll(d, edges,
                           SweepStep(sw, thresholds[sw.k], d.y, pred, m))

\* How solve ends on the training file d (its test directory holding a copy
\* of d) when the solver leaves o: it raises, or returns a full record, or,
\* after a failed solve, a record without the three objective entries.
SolveKind(d, o) ==
    LET edges == ExtractEdges(o.status, o.x)
        s     == SweepAll(d, edges, SweepStart(d.y))
    IN  IF s.raised THEN "raised"
        ELSE IF EvaluateTestSet(d.X, d.y, edges,
                                s.sweep.best_train_threshold).raised
             THEN "raised"
             ELSE IF o.status \in Success THEN "record" ELSE "short"

\* Every way a solve of the model can end.
SolveKinds ==
    UNION {{SolveKind(d, o) :
               o \in SolverOutcomes(PsiClassTrain(d.X, d.y, 0),
                                    PsiClassTrain(d.X, d.y, 1))} :
           d \in DataSets}

VARIABLES
    size,       \* SpecFlow: the support size B of the candidate
    x,          \* SpecFlow: a candidate 0/1 assignment of the variables
    accepted,   \* SpecFlow: "unchecked", or "yes"/"no": x meets the constraints
    pc,         \* where solve stands
    train,      \* [X, y]: X_train (raw counts) and y_train
    psi,        \* [psi_0_train, psi_1_train]
    sol,        \* [status, x, value]: the solver after Solve()
    out,        \* [objective_0, objective_1, total_cost, final_bin_edges,
                \*  final_num_bin, reported]
    sweep,      \* the threshold sweep: k (the next candidate), threshold (the
                \* last one tried), y_train_pred and the best_* values
    test,       \* [X, y]: the test set (raw counts) and its labels
    ev,         \* what the evaluation of the test set computed
    kinds,      \* SpecBatch: the ways a solve can end (SolveKinds, held so
                \* that it is computed once)
    task,       \* SpecBatch: per training file "queued", or how its solve ended
    mainpc,     \* SpecBatch: where main stands
    idx,        \* SpecBatch: the result the loop of main is at
    total_results_df,   \* SpecBatch: the files whose rows are aggregated
    csv         \* SpecBatch: the files whose rows test_results.csv holds

flowVars == <<size, x, accepted>>

solveVars == <<pc, train, psi, sol, out, sweep, test, ev>>

batchVars == <<kinds, task, mainpc, idx, total_results_df, csv>>

vars ==
    <<size, x, accepted, pc, train, psi, sol, out, sweep, test, ev,
      kinds, task, mainpc, idx, total_results_df, csv>>

\* Values of the variables a specification does not use.
NoData == [X |-> <<>>, y |-> <<>>]

NoPsi == [psi_0_train |-> Quot(0, 1), psi_1_train |-> Quot(0, 1)]

NoSol == [status |-> "NOT_SOLVED", x |-> {}, value |-> Quot(0, 1)]

NoOut ==
    [objective_0 |-> Quot(0, 1), objective_1 |-> Quot(0, 1),
     total_cost |-> Quot(0, 1), final_bin_edges |-> <<>>,
     final_num_bin |-> 0, reported |-> FALSE]

NoSweep ==
    [k |-> 0, threshold |-> 0, y_train_pred |-> <<>>,
     best_train_threshold |-> 0,
     best_train_precision_0 |-> 0, best_train_recall_1 |-> 0,
     best_train_inverse_weighted_f2 |-> 0, best_y_train_pred |-> <<>>,
     train_acc |-> Quot(0, 1), scores |-> <<>>]

NoEv ==
    [raised |-> FALSE, psis |-> <<>>, y_test_pred |-> <<>>,
     psi_0_test |-> Quot(0, 1), psi_1_test |-> Quot(0, 1),
     total_objective_test |-> Quot(0, 1), test_acc |-> Quot(0, 1),
     test_precision_0 |-> 0, test_recall_1 |-> 0,
     test_inverse_weighted_f2 |-> 0]

FlowIdle == size = 0 /\ x = {} /\ accepted = "unused"

SolveIdle ==
    /\ pc = "unused"
    /\ train = NoData
    /\ psi = NoPsi
    /\ sol = NoSol
    /\ out = NoOut
    /\ sweep = NoSweep
    /\ test = NoData
    /\ ev = NoEv

BatchIdle ==
    /\ kinds = {}
    /\ task = <<>>
    /\ mainpc = "unused"
    /\ idx = 0
    /\ total_results_df = <<>>
    /\ csv = <<>>

\* ------------------------------------------------------------- SpecFlow
\* Every 0/1 assignment of every support size, offered to the constraints.
FlowInit ==
    /\ size \in 2 .. train_size
    /\ x \in SUBSET Pairs(size)
    /\ accepted = "unchecked"
    /\ SolveIdle
    /\ BatchIdle

CheckFlow ==
    /\ accepted = "unchecked"
    /\ accepted' = IF FlowConstraints(x, size) THEN "yes" ELSE "no"
    /\ UNCHANGED <<size, x, solveVars, batchVars>>

FlowNext == CheckFlow

SpecFlow == FlowInit /\ [][FlowNext]_vars

\* ----------------------------------------------------------------- Spec
\* One call of solve on one training file whose test directory holds one
\* file, a copy of the training file (as in the documented run, whose test
\* objectives repeat the training ones).
Init ==
    /\ FlowIdle
    /\ BatchIdle
    /\ pc = "start"
    /\ train \in DataSets
    /\ test = train
    /\ psi = NoPsi
    /\ sol = NoSol
    /\ out = NoOut
    /\ sweep = NoSweep
    /\ ev = NoEv

\* Lines 98-131: the interval sums and the two class PSI matrices.
PrepareData ==
    /\ pc = "start"
    /\ psi' = [psi_0_train |-> PsiClassTrain(train.X, train.y, 0),
               psi_1_train |-> PsiClassTrain(train.X, train.y, 1)]
    /\ pc' = "prepared"
    /\ UNCHANGED <<flowVars, batchVars, train, sol, out, sweep, test, ev>>

\* Lines 140-219: the model is built and solved.
SolveModel ==
    /\ pc = "prepared"
    /\ sol' \in SolverOutcomes(psi.psi_0_train, psi.psi_1_train)
    /\ pc' = "solved"
    /\ UNCHANGED <<flowVars, batchVars, train, psi, out, sweep, test, ev>>

\* Lines 221-261: the objectives and the edges are read off the solution
\* on success, nothing on failure; either way the sweep is set up next.
ExtractSolution ==
    /\ pc = "solved"
    /\ LET ok    == sol.status \in Success
           edges == ExtractEdges(sol.status, sol.x)
       IN  out' = [objective_0 |->
                       IF ok THEN ObjectiveOfClass(psi.psi_0_train, sol.x)
                       ELSE Quot(0, 1),
                   objective_1 |->
                       IF ok THEN ObjectiveOfClass(psi.psi_1_train, sol.x)
                       ELSE Quot(0, 1),
                   total_cost |-> IF ok THEN sol.value ELSE Quot(0, 1),
                   final_bin_edges |-> edges,
                   final_num_bin |-> Len(edges) - 1,
                   reported |-> ok]
    /\ sweep' = SweepStart(train.y)
    /\ pc' = "sweep"
    /\ UNCHANGED <<flowVars, batchVars, train, psi, sol, test, ev>>

\* Lines 263-292: one candidate threshold.  An IndexError of the metrics
\* leaves solve.
SweepThreshold ==
    /\ pc = "sweep"
    /\ sweep.k <= Len(thresholds)
    /\ \E pred \in {Predictions(train.X, train.y, out.final_bin_edges,
                                thresholds[sweep.k])} :
         \E m \in {Metrics(train.y, pred)} :
            IF m.raised
            THEN /\ pc' = "raised"
                 /\ sweep' = [sweep EXCEPT !.threshold = thresholds[sweep.k],
                                           !.y_train_pred = pred]
            ELSE /\ pc' = "sweep"
                 /\ sweep' = SweepStep(sweep, thresholds[sweep.k],
                                       train.y, pred, m)
    /\ UNCHANGED <<flowVars, batchVars, train, psi, sol, out, test, ev>>

\* Lines 294-309: the best values go into the result.
FinishSweep ==
    /\ pc = "sweep"
    /\ sweep.k > Len(thresholds)
    /\ pc' = "evaluate"
    /\ UNCHANGED <<flowVars, batchVars, train, psi, sol, out, sweep, test, ev>>

\* Lines 312-373: the test set is evaluated at best_train_threshold and the
\* result is returned, unless the metrics raise.
EvaluateAndReturn ==
    /\ pc = "evaluate"
    /\ ev' = EvaluateTestSet(test.X, test.y, out.final_bin_edges,
                             sweep.best_train_threshold)
    /\ pc' = IF ev'.raised THEN "raised" ELSE "returned"
    /\ UNCHANGED <<flowVars, batchVars, train, psi, sol, out, sweep, test>>

Next ==
    \/ PrepareData
    \/ SolveModel
    \/ ExtractSolution
    \/ SweepThreshold
    \/ FinishSweep
    \/ EvaluateAndReturn

Spec == Init /\ [][Next]_vars

\* ------------------------------------------------------------- SpecEval
\* The evaluation alone, on every test set of the model, from every state
\* the sweep can end in: the edges of any feasible assignment or none (a
\* failed solve), and a best_train_threshold of 0 (no candidate scored
\* above 0) or of a candidate.
EdgeLists == {ExtractEdges("FEASIBLE", xs) : xs \in FeasibleSet} \cup {<<>>}

EvalInit ==
    /\ FlowIdle
    /\ BatchIdle
    /\ pc = "evaluate"
    /\ train = NoData
    /\ psi = NoPsi
    /\ sol = NoSol
    /\ \E edges \in EdgeLists :
          out = [NoOut EXCEPT !.final_bin_edges = edges,
                              !.final_num_bin = Len(edges) - 1]
    /\ \E threshold \in {0} \cup Range(thresholds) :
          sweep = [NoSweep EXCEPT !.best_train_threshold = threshold]
    /\ test \in DataSets
    /\ ev = NoEv

EvalNext == EvaluateAndReturn

SpecEval == EvalInit /\ [][EvalNext]_vars

\* The pairs (a, next a) of a set S of positions.
ConsecutivePairs(S) ==
    {e \in S \X S : e[1] < e[2] /\ ~ \E m \in S : e[1] < m /\ m < e[2]}

\* C1: every assignment that meets the flow and the in-and-out constraints
\* is one chain from position 0 to position B-1: it is the set of
\* consecutive pairs of a set of positions holding 0 and B-1, so every
\* position of [0, B-1) lies in exactly one selected interval [i, j).
C1_SinglePath ==
    accepted = "yes" =>
        /\ \E S \in SUBSET Pos(size) :
              /\ 0 \in S
              /\ (size - 1) \in S
              /\ x = ConsecutivePairs(S)
        /\ \A q \in 0 .. (size - 2) :
              Cardinality({e \in x : e[1] <= q /\ q < e[2]}) = 1

\* An accepted assignment of three intervals on the largest support.
C1_Witness ==
    /\ accepted = "yes"
    /\ size = train_size
    /\ Cardinality(x) = 3

\* ------------------------------------------------------------ SpecBatch
\* main on 1 .. MaxTasks training files.  Pool.starmap hands every file to
\* a worker of its own and returns the list of results once every solve has
\* ended; if a solve raised, it raises that error in main instead.
BatchInit ==
    /\ FlowIdle
    /\ SolveIdle
    /\ kinds = SolveKinds
    /\ \E n \in 1 .. MaxTasks : task = [i \in 1 .. n |-> "queued"]
    /\ mainpc = "starmap"
    /\ idx = 0
    /\ total_results_df = <<>>
    /\ csv = <<>>

\* A worker runs solve on file i.
WorkerSolve(i) ==
    /\ mainpc = "starmap"
    /\ task[i] = "queued"
    /\ \E kind \in kinds : task' = [task EXCEPT ![i] = kind]
    /\ UNCHANGED <<flowVars, solveVars, kinds, mainpc, idx, total_results_df, csv>>

\* Line 420: starmap ends when every solve has; an error of a solve is
\* raised in main, which leaves the with block and the function.
StarmapEnds ==
    /\ mainpc = "starmap"
    /\ \A i \in DOMAIN task : task[i] # "queued"
    /\ IF \E i \in DOMAIN task : task[i] = "raised"
       THEN mainpc' = "raised" /\ idx' = idx
       ELSE mainpc' = "loop" /\ idx' = 1
    /\ UNCHANGED <<flowVars, solveVars, kinds, task, total_results_df, csv>>

\* Lines 421-422: the rows of one solve are appended; save_results raises
\* ValueError on a record shorter than its list of columns.
Aggregate ==
    /\ mainpc = "loop"
    /\ idx <= Len(task)
    /\ IF task[idx] = "short"
       THEN /\ mainpc' = "raised"
            /\ UNCHANGED <<idx, total_results_df>>
       ELSE /\ total_results_df' = Append(total_results_df, idx)
            /\ idx' = idx + 1
            /\ mainpc' = "loop"
    /\ UNCHANGED <<flowVars, solveVars, kinds, task, csv>>

\* Line 424: the table is written.
WriteCsv ==
    /\ mainpc = "loop"
    /\ idx > Len(task)
    /\ csv' = total_results_df
    /\ mainpc' = "done"
    /\ UNCHANGED <<flowVars, solveVars, kinds, task, idx, total_results_df>>

BatchNext ==
    \/ \E i \in DOMAIN task : WorkerSolve(i)
    \/ StarmapEnds
    \/ Aggregate
    \/ WriteCsv

SpecBatch == BatchInit /\ [][BatchNext]_vars

\* ------------------------------------------------------ claims of Spec
\* solve is past the extraction of lines 221-247.
Extracted == pc \in {"sweep", "raised", "evaluate", "returned"}

\* C2: after a solve whose status is OPTIMAL or FEASIBLE the reported
\* final_num_bin is len(final_bin_edges) - 1, equals the number of selected
\* x[i][j], and lies between min_num_bins and max_num_bins.
C2_BinCountWithinBounds ==
    (Extracted /\ sol.status \in Success) =>
        /\ out.final_num_bin = Len(out.final_bin_edges) - 1
        /\ out.final_num_bin = Cardinality(sol.x)
        /\ min_num_bins <= out.final_num_bin
        /\ out.final_num_bin <= max_num_bins

\* A successful solve that uses every bin it may.
C2_Witness ==
    /\ Extracted
    /\ sol.status = "OPTIMAL"
    /\ out.final_num_bin = max_num_bins

StrictlyIncreasing(seq) ==
    \A a \in 1 .. (Len(seq) - 1) : seq[a] < seq[a + 1]

\* C3: after a successful solve the edge sequence is strictly increasing
\* (so max_edge is not appended twice), starts at min_edge and ends at
\* max_edge.
C3_EdgesIncreasing ==
    (Extracted /\ sol.status \in Success) =>
        /\ StrictlyIncreasing(out.final_bin_edges)
        /\ out.final_bin_edges[1] = min_edge
        /\ out.final_bin_edges[Len(out.final_bin_edges)] = max_edge

\* A successful solve with an interior edge.
C3_Witness ==
    /\ Extracted
    /\ sol.status \in Success
    /\ Len(out.final_bin_edges) >= 3
    /\ out.final_bin_edges[2] = min_edge + 1

\* C4: when the solver status is neither OPTIMAL nor FEASIBLE, solve does
\* not go on to the threshold sweep or to the evaluation with the empty
\* edge list.
C4_FailureSurfaced ==
    sol.status \notin Success =>
        pc \notin {"sweep", "raised", "evaluate", "returned"}

\* C5: when the training labels hold no transition of a class, solve does
\* not get past the PSI aggregation: no NaN class matrix reaches the model.
C5_DegenerateClassRaises ==
    pc \in {"prepared", "solved", "sweep", "raised", "evaluate", "returned"} =>
        /\ ClassCount(train.y, 0) > 0
        /\ ClassCount(train.y, 1) > 0
        /\ ~ psi.psi_0_train.nan
        /\ ~ psi.psi_1_train.nan

\* C10: for two days with all mass on position p on day 0 and on p + 1 on
\* day 1, the one transition labelled 1, solve reports an edge at
\* p + 1 + min_edge and a total_cost > 0.
ShiftScenario(d, p) ==
    /\ Len(d.X) = 2
    /\ d.y = <<1>>
    /\ p + 1 \in Cells
    /\ d.X[1][p] = 1
    /\ d.X[2][p + 1] = 1

C10_ShiftSeparated ==
    \A p \in Cells :
        (Extracted /\ ShiftScenario(train, p)) =>
            /\ out.reported
            /\ \E a \in DOMAIN out.final_bin_edges :
                  out.final_bin_edges[a] = p + 1 + min_edge
            /\ ~ out.total_cost.nan
            /\ out.total_cost.num > 0

\* The label that follows from psi and the threshold alone.
LabelOf(psi_value, threshold, s) ==
    IF AtLeast(psi_value, threshold, s) THEN 1 ELSE 0

\* C6: in the training sweep and in the test evaluation the predicted label
\* of every transition is 1 exactly when its psi >= the threshold and 0
\* exactly when psi < the threshold, whatever its true label.
C6_PredictionFromPsiAlone ==
    /\ \A t \in DOMAIN sweep.y_train_pred :
          /\ train.y[t] \in {0, 1}
          /\ sweep.y_train_pred[t] =
                LabelOf(BinPsi(train.X, t, out.final_bin_edges),
                        sweep.threshold, Norm(train.X))
          /\ sweep.y_train_pred[t] = 0 <=>
                Below(BinPsi(train.X, t, out.final_bin_edges),
                      sweep.threshold, Norm(train.X))
    /\ \A t \in DOMAIN ev.y_test_pred :
          /\ test.y[t] \in {0, 1}
          /\ ev.y_test_pred[t] =
                LabelOf(ev.psis[t], sweep.best_train_threshold, Norm(test.X))
          /\ ev.y_test_pred[t] = 0 <=>
                Below(ev.psis[t], sweep.best_train_threshold, Norm(test.X))

\* A sweep that flips a label of each class, and an evaluation that flips a
\* label and keeps one.
C6_Witness ==
    /\ pc = "returned"
    /\ \E t \in DOMAIN train.y : train.y[t] = 0 /\ sweep.y_train_pred[t] = 1
    /\ \E t \in DOMAIN train.y : train.y[t] = 1 /\ sweep.y_train_pred[t] = 0
    /\ \E t \in DOMAIN test.y : test.y[t] = 0 /\ ev.y_test_pred[t] = 1
    /\ \E t \in DOMAIN test.y : test.y[t] = 1 /\ ev.y_test_pred[t] = 1

\* C7: after the sweep the retained threshold is a candidate whose score is
\* at least every candidate's, and the retained accuracy, precision,
\* recall and predictions are those computed at it (stated for a training
\* set with both classes and an optimal solve).
C7_BestIsArgmax ==
    (/\ pc \in {"evaluate", "returned"}
     /\ sol.status = "OPTIMAL"
     /\ ClassCount(train.y, 0) > 0
     /\ ClassCount(train.y, 1) > 0) =>
        \E k \in DOMAIN thresholds :
            LET pred == Predictions(train.X, train.y, out.final_bin_edges,
                                    thresholds[k])
                m    == Metrics(train.y, pred)
            IN  /\ sweep.best_train_threshold = thresholds[k]
                /\ \A j \in DOMAIN thresholds :
                      sweep.scores[j] <= sweep.scores[k]
                /\ sweep.best_train_inverse_weighted_f2 = sweep.scores[k]
                /\ sweep.best_y_train_pred = pred
                /\ sweep.train_acc = Accuracy(train.y, pred)
                /\ sweep.best_train_precision_0 = m.precision_0
                /\ sweep.best_train_recall_1 = m.recall_1

\* ---------------------------------------------------- claims of SpecEval
SingleClass(y) == ClassCount(y, 0) = 0 \/ ClassCount(y, 1) = 0

\* C8: the evaluation of a data set without transitions of one class
\* completes, and reports the class's objective as NaN (stated for the
\* edges of a successful solve and a retained candidate threshold).
C8_SingleClassEvaluationCompletes ==
    (/\ pc \in {"returned", "raised"}
     /\ SingleClass(test.y)
     /\ out.final_bin_edges # <<>>
     /\ sweep.best_train_threshold \in Range(thresholds)) =>
        /\ pc = "returned"
        /\ ~ ev.raised
        /\ ClassCount(test.y, 0) = 0 => ev.psi_0_test.nan
        /\ ClassCount(test.y, 1) = 0 => ev.psi_1_test.nan

\* --------------------------------------------------- claims of SpecBatch
\* C9: when main has ended, by its end or by an error, the rows of every
\* solve that returned its record are in the results table, whatever the
\* other solves of the batch did.
C9_FailureIsolated ==
    mainpc \in {"done", "raised"} =>
        \A i \in DOMAIN task : task[i] = "record" => i \in Range(csv)

\* ------------------------------------------- the two objectives compared
\* Two floats agree: both NaN, or neither and the same quotient.
SameValue(a, b) ==
    \/ a.nan /\ b.nan
    \/ ~ a.nan /\ ~ b.nan /\ a.num * b.den = b.num * a.den

\* The value the evaluator computes for class c from the edges on the data
\* d: the psi over the bins of every class-c transition, summed and divided
\* by the number of class-c transitions (lines 318-346).
EvaluatorObjective(d, edges, c) ==
    Quot(SumPsiOfLabel([t \in DOMAIN d.y |-> BinPsi(d.X, t, edges)],
                       d.y, c, Len(d.y)),
         ClassCount(d.y, c))

\* C11: after a successful solve, for the assignment the solver left
\* (any feasible one) and the edges extracted from it, the reported
\* objective_0 and objective_1 (the class matrices summed over the selected
\* pairs) are the values the evaluator computes from the edges on the
\* training data, and total_cost is alpha * objective_1 - (1 - alpha) *
\* objective_0; and the evaluation of a test set identical to the training
\* set reports the same three values.
C11_MatrixObjectiveIsEvaluatorObjective ==
    /\ (pc = "sweep" /\ sweep.k = 1 /\ sol.status \in Success) =>
          /\ SameValue(out.objective_0,
                       EvaluatorObjective(train, out.final_bin_edges, 0))
          /\ SameValue(out.objective_1,
                       EvaluatorObjective(train, out.final_bin_edges, 1))
          /\ SameValue(out.total_cost,
                       Combine(out.objective_0, out.objective_1))
    /\ (pc \in {"returned", "raised"} /\ ev # NoEv
        /\ sol.status \in Success /\ test = train) =>
          /\ SameValue(ev.psi_0_test, out.objective_0)
          /\ SameValue(ev.psi_1_test, out.objective_1)
          /\ SameValue(ev.total_objective_test, out.total_cost)

\* A returned optimal solve on a training set with both classes whose
\* edges separate the class-1 shift and not the class-0 one, evaluated on
\* the same data.
C11_Witness ==
    /\ pc = "returned"
    /\ sol.status = "OPTIMAL"
    /\ test = train
    /\ ~ out.objective_0.nan /\ ~ out.objective_1.nan
    /\ out.objective_0.num = 0
    /\ out.objective_1.num > 0
    /\ out.total_cost.num > 0
    /\ ev.psi_1_test.num = out.objective_1.num
    /\ Cardinality(sol.x) = max_num_bins

====
